---- MODULE Spec2Model ----
(***************************************************************************)
(* Model of highscore-cloudrun-service/main.py: an HTTP function that      *)
(* keeps a top-10 leaderboard in one JSON blob of a storage bucket.        *)
(*                                                                         *)
(* Numbers.  Request parameters are text (sequences of characters).        *)
(* float() turns a score text into a value counted in hundredths, round(.,1)*)
(* turns hundredths into tenths, and every stored score is counted in      *)
(* tenths (50.0 is 500).  The IEEE specials are the three integers NaN,    *)
(* PosInf and NegInf; every comparison goes through Lt/Le/Gt, which are    *)
(* false as soon as one side is NaN, as the float comparisons of Python.   *)
(*                                                                         *)
(* Time.  datetime.now() is a clock that moves on by one tick at each      *)
(* call; a timestamp is the tick.                                          *)
(*                                                                         *)
(* Storage.  The blob is read and written whole, so a request touches the  *)
(* shared state once (list) or twice (submit: its read, then its write);   *)
(* each touch is one step, and steps of different instances interleave.    *)
(* A storage call may raise; nothing in main.py catches that.              *)
(***************************************************************************)
EXTENDS Integers, Sequences, FiniteSets, TLC

\* ------------------------------------------------------------ bounds ----
\* Submissions accepted over a run (each takes one tick of the clock): when
\* requests follow one another, and when they may overlap.  Function
\* instances that may run at once.
MaxSubmits == 4
MaxOverlapSubmits == 2
MaxInstances == 2

\* ---------------------------------------------------------- constants ----
MaxNameLen == 20
MaxScore == 100000
MaxEntries == 10

\* ------------------------------------------------------------- floats ----
PosInf == 2000000000
NegInf == -2000000000
NaN == 1999999999

Lt(a, b) == a # NaN /\ b # NaN /\ a < b
Le(a, b) == a # NaN /\ b # NaN /\ a <= b
Gt(a, b) == a # NaN /\ b # NaN /\ a > b
Neg(a) == IF a = NaN THEN NaN ELSE 0 - a

\* float(text), for the texts of the form [sign] digits [. digits{0,2}],
\* [sign]nan and [sign]inf; any other text raises ValueError (ok = FALSE).
\* The value is counted in hundredths.
DigitChars == {"0", "1", "2", "3", "4", "5", "6", "7", "8", "9"}

DigitValue(c) ==
    CASE c = "0" -> 0 [] c = "1" -> 1 [] c = "2" -> 2 [] c = "3" -> 3
      [] c = "4" -> 4 [] c = "5" -> 5 [] c = "6" -> 6 [] c = "7" -> 7
      [] c = "8" -> 8 [] c = "9" -> 9

RECURSIVE DigitsValue(_)
DigitsValue(ds) ==
    IF ds = <<>> THEN 0
    ELSE 10 * DigitsValue(SubSeq(ds, 1, Len(ds) - 1)) + DigitValue(ds[Len(ds)])

AllDigits(ds) == \A i \in 1..Len(ds) : ds[i] \in DigitChars

DotAt(t) ==
    IF \E i \in 1..Len(t) : t[i] = "."
    THEN CHOOSE i \in 1..Len(t) : t[i] = "." /\ \A j \in 1..(i - 1) : t[j] # "."
    ELSE 0

ParseUnsigned(t) ==
    LET d == DotAt(t)
        ip == IF d = 0 THEN t ELSE SubSeq(t, 1, d - 1)
        fp == IF d = 0 THEN <<>> ELSE SubSeq(t, d + 1, Len(t))
    IN  IF t = <<"n", "a", "n">> THEN [ok |-> TRUE, v |-> NaN]
        ELSE IF t = <<"i", "n", "f">> THEN [ok |-> TRUE, v |-> PosInf]
        ELSE IF /\ AllDigits(ip) /\ AllDigits(fp)
                /\ Len(ip) + Len(fp) > 0 /\ Len(fp) <= 2
        THEN [ok |-> TRUE,
              v |-> 100 * DigitsValue(ip)
                    + (IF Len(fp) = 1 THEN 10 ELSE 1) * DigitsValue(fp)]
        ELSE [ok |-> FALSE, v |-> 0]

ParseFloat(t) ==
    IF t # <<>> /\ t[1] \in {"-", "+"}
    THEN LET u == ParseUnsigned(Tail(t))
         IN  IF u.ok /\ t[1] = "-" THEN [ok |-> TRUE, v |-> Neg(u.v)] ELSE u
    ELSE ParseUnsigned(t)

\* round(x, 1): hundredths to tenths.  NaN and the infinities round to
\* themselves; an exact tie (x.x5 is a binary fraction only for x.25 and
\* x.75) goes to the even tenth; other x.x5 texts are not binary fractions
\* and are not drawn as inputs.
Round1(h) ==
    IF h \in {NaN, PosInf, NegInf} THEN h
    ELSE LET a == IF h < 0 THEN 0 - h ELSE h
             q == a \div 10
             r == a % 10
             m == CASE r < 5 -> q
                    [] r > 5 -> q + 1
                    [] r = 5 /\ a % 25 = 0 -> IF q % 2 = 0 THEN q ELSE q + 1
         IN  IF h < 0 THEN 0 - m ELSE m

\* --------------------------------------------------------------- sort ----
\* sorted(data, key=lambda x: -x["score"]) as CPython's list.sort does it on
\* fewer than 64 elements: one run found by count_run, the rest placed by
\* binary insertion.  Only "<" on the keys is used.
Key(e) == Neg(e.score)

Rev(s, i, j) ==
    [k \in 1..Len(s) |-> IF i <= k /\ k <= j THEN s[i + j - k] ELSE s[k]]

RECURSIVE RunAsc(_, _)
RunAsc(s, n) ==
    IF n < Len(s) /\ ~Lt(Key(s[n + 1]), Key(s[n])) THEN RunAsc(s, n + 1) ELSE n

RECURSIVE RunDesc(_, _)
RunDesc(s, n) ==
    IF n < Len(s) /\ Lt(Key(s[n + 1]), Key(s[n])) THEN RunDesc(s, n + 1) ELSE n

\* count_run, as in CPython 3.11: a non-descending run, or a strictly
\* descending one that is reversed in place.  (Later versions look for the
\* run in another way; the two agree unless a key is nan.)
CountRun(s) ==
    IF Len(s) < 2 THEN [s |-> s, n |-> Len(s)]
    ELSE IF Lt(Key(s[2]), Key(s[1]))
         THEN LET n == RunDesc(s, 2) IN [s |-> Rev(s, 1, n), n |-> n]
         ELSE [s |-> s, n |-> RunAsc(s, 2)]

RECURSIVE Bisect(_, _, _, _)
Bisect(s, pivot, l, r) ==
    IF l < r
    THEN LET p == l + ((r - l) \div 2)
         IN  IF Lt(Key(pivot), Key(s[p])) THEN Bisect(s, pivot, l, p)
             ELSE Bisect(s, pivot, p + 1, r)
    ELSE l

InsertAt(s, i, l) ==
    [k \in 1..Len(s) |->
        IF k < l \/ k > i THEN s[k] ELSE IF k = l THEN s[i] ELSE s[k - 1]]

RECURSIVE BinarySort(_, _)
BinarySort(s, start) ==
    IF start > Len(s) THEN s
    ELSE BinarySort(InsertAt(s, start, Bisect(s, s[start], 1, start)), start + 1)

Sorted(s) == LET run == CountRun(s) IN BinarySort(run.s, run.n + 1)

\* --------------------------------------------------------------- JSON ----
\* json.dumps / json.loads between the list of dicts and the blob's text.
\* The blob is kept as the array of its objects; a number is the literal
\* that stands in the text, and nan is written as the literal NaN.
DumpNumber(x) ==
    IF x = NaN THEN [lit |-> "NaN", tenths |-> 0]
    ELSE [lit |-> "number", tenths |-> x]

LoadNumber(j) == IF j.lit = "NaN" THEN NaN ELSE j.tenths

JsonDumps(d) ==
    [i \in 1..Len(d) |->
        [name |-> d[i].name, score |-> DumpNumber(d[i].score),
         timestamp |-> d[i].timestamp]]

JsonLoads(b) ==
    [i \in 1..Len(b) |->
        [name |-> b[i].name, score |-> LoadNumber(b[i].score),
         timestamp |-> b[i].timestamp]]

\* ------------------------------------------------------------- inputs ----
Name20 == "NNNNNNNNNNNNNNNNNNNN"
Name21 == "NNNNNNNNNNNNNNNNNNNNN"

T_abc == <<"a", "b", "c">>
T_nan == <<"n", "a", "n">>
T_inf == <<"i", "n", "f">>
T_0 == <<"0">>
T_neg == <<"-", "0", ".", "0", "4">>
T_over == <<"1", "0", "0", "0", "0", "0", ".", "1">>
T_40 == <<"4", "0">>
T_50 == <<"5", "0", ".", "0", "4">>
T_max == <<"1", "0", "0", "0", "0", "0">>

\* Arguments of POST /submit: a bad or missing name, a bad or missing score,
\* and submissions of a name of 1 or 20 characters with nan, 40, 50.04 and
\* 100000.
SubmitArgs ==
    {[score |-> T_50], [name |-> "", score |-> T_50],
     [name |-> "", score |-> T_abc], [name |-> Name21, score |-> T_50]}
      \cup {[name |-> "C"]}
      \cup {[name |-> "C", score |-> s] : s \in {T_abc, T_inf, T_0, T_neg, T_over}}
      \cup {[name |-> "C", score |-> s] : s \in {T_nan, T_40, T_50}}
      \cup {[name |-> Name20, score |-> T_max]}

Requests ==
    {[path |-> "/", method |-> m, args |-> [name |-> "C", score |-> T_50]] :
        m \in {"GET", "POST"}}
      \cup {[path |-> pa, method |-> "GET",
             args |-> [name |-> "C", score |-> T_50]] : pa \in {"/foo", "/submit"}}
      \cup {[path |-> "/submit", method |-> "POST", args |-> a] : a \in SubmitArgs}

\* Persisted lists the service starts from: a board of two and a full board of ten equal scores (newest first, as submit leaves them).
Board2 ==
    << [name |-> "A", score |-> 500, timestamp |-> 2],
       [name |-> "B", score |-> 400, timestamp |-> 1] >>

Board10 ==
    [i \in 1..MaxEntries |->
        [name |-> "A", score |-> 450, timestamp |-> MaxEntries + 1 - i]]

InitBoards == {Board2, Board10}

\* -------------------------------------------------------------- state ----
VARIABLES
    storage,    \* the blob highscores.json: the JSON array it holds
    clock,      \* what datetime.now() returns next
    pc,         \* per instance: "idle", "write" (submit between its read
                \* and its write), "done" (returned), "fault" (raised)
    req,        \* per instance: the request being handled
    loaded,     \* per instance: submit's data after json.loads
    entry,      \* per instance: the dict submit inserts
    data,       \* per instance: submit's data after sorted(...)[:10]
    out         \* the response delivered last, with the storage calls made

vars == <<storage, clock, pc, req, loaded, entry, data, out>>

Instances == 1..MaxInstances

NoEntry == [name |-> "", score |-> 0, timestamp |-> 0]
NoRequest == [path |-> "", method |-> "", args |-> [none |-> <<>>]]
NoResponse == [req |-> NoRequest, outcome |-> "none", status |-> 0,
               body |-> <<>>, calls |-> <<>>]

Init ==
    /\ storage \in {JsonDumps(b) : b \in InitBoards}
    /\ clock = MaxEntries + 1
    /\ pc = [p \in Instances |-> "idle"]
    /\ req = [p \in Instances |-> NoRequest]
    /\ loaded = [p \in Instances |-> <<>>]
    /\ entry = [p \in Instances |-> NoEntry]
    /\ data = [p \in Instances |-> <<>>]
    /\ out = NoResponse

\* ------------------------------------------------------------- router ----
RouteAnyMethod(r) ==
    IF r.path = "/" THEN "list"
    ELSE IF r.path = "/submit" THEN "submit"
    ELSE "bad"

Route(r) ==
    IF r.path = "/" THEN "list"
    ELSE IF r.path = "/submit" /\ r.method = "POST" THEN "submit"
    ELSE "bad"

\* --------------------------------------------------------- validation ----
NameRaisesOffByOne(args) ==
    IF "name" \notin DOMAIN args THEN TRUE
    ELSE Len(args.name) = 0 \/ Len(args.name) > MaxNameLen + 1

NameRaises(args) ==
    IF "name" \notin DOMAIN args THEN TRUE
    ELSE Len(args.name) = 0 \/ Len(args.name) > MaxNameLen

ScoreOf(args) == Round1(ParseFloat(args.score).v)

ScoreRaises(args) ==
    IF "score" \notin DOMAIN args THEN TRUE
    ELSE IF ~ParseFloat(args.score).ok THEN TRUE
    ELSE Le(ScoreOf(args), 0) \/ Gt(ScoreOf(args), MaxScore * 10)

Rejected(args) == IF NameRaises(args) THEN TRUE ELSE ScoreRaises(args)

\* The requests by the branch of main and of submit that they take.
BadRouteRequests == {r \in Requests : Route(r) = "bad"}
ListRequests == {r \in Requests : Route(r) = "list"}
RejectedRequests == {r \in Requests : Route(r) = "submit" /\ Rejected(r.args)}
AcceptedRequests == {r \in Requests : Route(r) = "submit" /\ ~Rejected(r.args)}

\* ------------------------------------------------------ submit's merge ----
Take(s, n) == SubSeq(s, 1, IF Len(s) < n THEN Len(s) ELSE n)

Merge(old, e) == Take(Sorted(<<e>> \o old), MaxEntries)

\* ------------------------------------------------------------ actions ----
\* The platform hands a request to the lowest instance that is not in the
\* middle of a submit; a new invocation starts from a fresh frame.
CanReceive(p) ==
    /\ pc[p] # "write"
    /\ \A q \in Instances : q < p => pc[q] = "write"

\* A handler that finishes in one step leaves nothing in the frame.
Finish(p, state) ==
    /\ pc' = [pc EXCEPT ![p] = state]
    /\ req' = [req EXCEPT ![p] = NoRequest]
    /\ loaded' = [loaded EXCEPT ![p] = <<>>]
    /\ entry' = [entry EXCEPT ![p] = NoEntry]
    /\ data' = [data EXCEPT ![p] = <<>>]

Returned(r, st, b, cs) ==
    [req |-> r, outcome |-> "returned", status |-> st,
     body |-> b, calls |-> cs]

Raised(r, cs) ==
    [req |-> r, outcome |-> "raised", status |-> 0,
     body |-> <<>>, calls |-> cs]

\* main, line 19: neither "/" nor POST /submit.
BadRoute(p) ==
    \E r \in BadRouteRequests :
        /\ CanReceive(p)
        /\ Finish(p, "done")
        /\ out' = Returned(r, 400, "Bad request", <<>>)
        /\ UNCHANGED <<storage, clock>>

ListHighscoresStale(p) ==
    \E r \in ListRequests :
        /\ CanReceive(p)
        /\ out' = Returned(r, 200, JsonDumps(loaded[p]), <<"read">>)
        /\ Finish(p, "done")
        /\ UNCHANGED <<storage, clock>>

\* list_highscores: the blob's text is the body.
ListHighscores(p) ==
    \E r \in ListRequests :
        /\ CanReceive(p)
        /\ Finish(p, "done")
        /\ out' = Returned(r, 200, storage, <<"read">>)
        /\ UNCHANGED <<storage, clock>>

\* list_highscores when download_as_text raises.
ListRaises(p) ==
    \E r \in ListRequests :
        /\ CanReceive(p)
        /\ Finish(p, "fault")
        /\ out' = Raised(r, <<"read">>)
        /\ UNCHANGED <<storage, clock>>

\* submit, lines 28-35: the try block raises.
SubmitRejects(p) ==
    \E r \in RejectedRequests :
        /\ CanReceive(p)
        /\ Finish(p, "done")
        /\ out' = Returned(r, 400, "Bad request", <<>>)
        /\ UNCHANGED <<storage, clock>>

\* submit, lines 28-42: validation passes, the blob is read and the new
\* list is computed; the write is still to come.
SubmitReads(p, max) ==
    \E r \in AcceptedRequests :
        /\ CanReceive(p)
        /\ clock <= MaxEntries + max
        /\ LET old == JsonLoads(storage)
               e == [name |-> r.args.name, score |-> ScoreOf(r.args),
                     timestamp |-> clock]
           IN  /\ loaded' = [loaded EXCEPT ![p] = old]
               /\ entry' = [entry EXCEPT ![p] = e]
               /\ data' = [data EXCEPT ![p] = Merge(old, e)]
        /\ pc' = [pc EXCEPT ![p] = "write"]
        /\ req' = [req EXCEPT ![p] = r]
        /\ clock' = clock + 1
        /\ UNCHANGED <<storage, out>>

\* submit when download_as_text raises at line 37.
SubmitReadRaises(p) ==
    \E r \in AcceptedRequests :
        /\ CanReceive(p)
        /\ Finish(p, "fault")
        /\ out' = Raised(r, <<"read">>)
        /\ UNCHANGED <<storage, clock>>

SubmitWritesMerged(p) ==
    /\ pc[p] = "write"
    /\ LET d == Merge(JsonLoads(storage), entry[p])
       IN  /\ storage' = JsonDumps(d)
           /\ data' = [data EXCEPT ![p] = d]
           /\ out' = Returned(req[p], 200, d, <<"read", "write">>)
    /\ pc' = [pc EXCEPT ![p] = "done"]
    /\ req' = [req EXCEPT ![p] = NoRequest]
    /\ UNCHANGED <<clock, loaded, entry>>

\* submit, lines 43-45: the blob is overwritten and the list returned.  The
\* frame keeps what submit read and inserted until the instance is reused.
SubmitWrites(p) ==
    /\ pc[p] = "write"
    /\ storage' = JsonDumps(data[p])
    /\ pc' = [pc EXCEPT ![p] = "done"]
    /\ req' = [req EXCEPT ![p] = NoRequest]
    /\ out' = Returned(req[p], 200, data[p], <<"read", "write">>)
    /\ UNCHANGED <<clock, loaded, entry, data>>

SubmitWriteRaisesPartial(p) ==
    /\ pc[p] = "write"
    /\ storage' = JsonDumps(SubSeq(data[p], 1, 1))
    /\ pc' = [pc EXCEPT ![p] = "fault"]
    /\ req' = [req EXCEPT ![p] = NoRequest]
    /\ out' = Raised(req[p], <<"read", "write">>)
    /\ UNCHANGED <<clock, loaded, entry, data>>

\* submit when upload_from_string raises at line 43: the blob is untouched.
SubmitWriteRaises(p) ==
    /\ pc[p] = "write"
    /\ pc' = [pc EXCEPT ![p] = "fault"]
    /\ req' = [req EXCEPT ![p] = NoRequest]
    /\ out' = Raised(req[p], <<"read", "write">>)
    /\ UNCHANGED <<storage, clock, loaded, entry, data>>

Step(p, max) ==
    \/ BadRoute(p)
    \/ ListHighscores(p)
    \/ ListRaises(p)
    \/ SubmitRejects(p)
    \/ SubmitReads(p, max)
    \/ SubmitReadRaises(p)
    \/ SubmitWrites(p)
    \/ SubmitWriteRaises(p)

Next == \E p \in Instances : Step(p, MaxOverlapSubmits)

Spec == Init /\ [][Next]_vars

\* Requests that do not overlap: one instance serves them all in turn.
NextSeq == Step(1, MaxSubmits)

SpecSeq == Init /\ [][NextSeq]_vars


\* ------------------------------------------------------------- claims ----
Ge(a, b) == a # NaN /\ b # NaN /\ a >= b

Range(s) == {s[i] : i \in 1..Len(s)}

Board == JsonLoads(storage)

NonIncreasing(l) == \A i \in 1..(Len(l) - 1) : Ge(l[i].score, l[i + 1].score)

Answered == out.outcome # "none"

Answered400 ==
    out.outcome = "returned" /\ out.status = 400 /\ out.body = "Bad request"

IsPostSubmit(r) == r.path = "/submit" /\ r.method = "POST"

OtherRoute(r) == r.path # "/" /\ ~IsPostSubmit(r)

ListAnswered == out.req.path = "/" /\ out.outcome = "returned"

NameMissingOrBad(a) ==
    IF "name" \in DOMAIN a THEN Len(a.name) = 0 \/ Len(a.name) >= 21 ELSE TRUE

ScoreInRange(a) ==
    IF "score" \in DOMAIN a
    THEN IF ParseFloat(a.score).ok
         THEN LET x == Round1(ParseFloat(a.score).v)
              IN  Gt(x, 0) /\ Le(x, 1000000)
         ELSE FALSE
    ELSE FALSE

\* A frame that holds an accepted submission: what it read, inserted, computed.
Submitted(p) == entry[p] # NoEntry

\* The list with e put right before its first entry that scores <= e.
RankOf(l, e) ==
    IF \E k \in 1..Len(l) : Le(l[k].score, e.score)
    THEN CHOOSE k \in 1..Len(l) :
            /\ Le(l[k].score, e.score)
            /\ \A j \in 1..(k - 1) : ~Le(l[j].score, e.score)
    ELSE Len(l) + 1

InsertByRank(l, e) ==
    SubSeq(l, 1, RankOf(l, e) - 1) \o <<e>> \o SubSeq(l, RankOf(l, e), Len(l))

\* The response delivered last is the 200 of the submit in frame q.
LastWriter(q) ==
    /\ pc[q] = "done"
    /\ Submitted(q)
    /\ out.outcome = "returned"
    /\ out.status = 200
    /\ IsPostSubmit(out.req)
    /\ out.body = data[q]

BadNameAnswer ==
    (Answered /\ IsPostSubmit(out.req)) =>
        /\ NameMissingOrBad(out.req.args) => (Answered400 /\ out.calls = <<>>)
        /\ (~NameMissingOrBad(out.req.args) /\ ScoreInRange(out.req.args))
              => ~Answered400

RouteAnswer ==
    Answered =>
        /\ out.req.path = "/" =>
              /\ out.calls = <<"read">>
              /\ out.outcome = "returned" => (out.status = 200 /\ out.body = storage)
        /\ (IsPostSubmit(out.req) /\ ~NameMissingOrBad(out.req.args)
              /\ ScoreInRange(out.req.args)) => ~Answered400
        /\ OtherRoute(out.req) => (Answered400 /\ out.calls = <<>>)

ListAnswer ==
    ListAnswered =>
        /\ out.status = 200
        /\ out.body = storage
        /\ out.calls = <<"read">>

FaultAnswer ==
    out.outcome = "raised" =>
        /\ out.status \notin {200, 400}
        /\ out.req.path = "/" \/ IsPostSubmit(out.req)
        /\ out.calls \in {<<"read">>, <<"read", "write">>}
        /\ out.req.path = "/" => out.calls = <<"read">>

\* C1: after any sequence of requests the persisted list has at most 10
\* entries and is sorted by non-increasing score.
C1_BoundedAndSorted == Len(storage) <= 10 /\ NonIncreasing(Board)

\* C2: a POST /submit whose score is missing, does not parse, or does not
\* round to a value that is both > 0 and <= 100000 is answered 400 "Bad
\* request" with no storage call made; and every stored score is in
\* (0, 100000].
C2_BadScoreRejected ==
    /\ (Answered /\ IsPostSubmit(out.req) /\ ~ScoreInRange(out.req.args))
          => (Answered400 /\ out.calls = <<>>)
    /\ \A i \in 1..Len(Board) :
          Gt(Board[i].score, 0) /\ Le(Board[i].score, 1000000)

\* C3: a POST /submit whose name is missing, empty or longer than 20 is
\* answered 400 "Bad request" whatever the score, makes no storage call and
\* leaves the blob as it is; a name of 1 to 20 characters with a score in
\* range is not turned down.
C3_BadNameRejected ==
    /\ []BadNameAnswer
    /\ [][(IsPostSubmit(out'.req) /\ NameMissingOrBad(out'.req.args))
            => storage' = storage]_vars

\* C3 witness: a name of 21 characters was answered 400 after a submission
\* had been stored.
C3_Witness ==
    /\ IsPostSubmit(out.req)
    /\ "name" \in DOMAIN out.req.args
    /\ Len(out.req.args.name) = 21
    /\ Answered400
    /\ Len(storage) = 3

\* C4: an accepted submission on a sorted list gives the first 10 of that
\* list with the new entry put right before the first entry whose score is
\* <= the new score (at the end if there is none).
C4_InsertedByRank ==
    \A p \in Instances :
        (Submitted(p) /\ NonIncreasing(loaded[p]))
            => data[p] = SubSeq(InsertByRank(loaded[p], entry[p]), 1,
                                IF Len(loaded[p]) < 10 THEN Len(loaded[p]) + 1 ELSE 10)

\* C5: on a list of 10 entries, an accepted submission that scores above the
\* 10th gives a list of exactly 10 that holds the new entry and the first
\* nine old ones, and not the old 10th.
C5_LowestDropped ==
    \A p \in Instances :
        (/\ Submitted(p)
         /\ Len(loaded[p]) = 10
         /\ Gt(entry[p].score, loaded[p][10].score))
            => /\ Len(data[p]) = 10
               /\ entry[p] \in Range(data[p])
               /\ loaded[p][10] \notin Range(data[p])
               /\ \A i \in 1..9 : loaded[p][i] \in Range(data[p])

\* C6: "/" goes to the list handler whatever the method, "/submit" goes to
\* the submit handler only on POST, and any other path or method is answered
\* 400 "Bad request" with no storage call and the blob left as it is.
C6_Routing ==
    /\ []RouteAnswer
    /\ [][(Answered' /\ OtherRoute(out'.req)) => storage' = storage]_vars

\* C6 witness: GET /submit, with arguments that POST /submit accepts, was
\* answered 400 after a submission had been stored.
C6_Witness ==
    /\ out.req.path = "/submit"
    /\ out.req.method = "GET"
    /\ ~NameMissingOrBad(out.req.args)
    /\ ScoreInRange(out.req.args)
    /\ Answered400
    /\ Len(storage) = 3

\* C7: a request to "/" that returns is answered 200 with the blob as it is
\* at the read, makes no write and leaves the blob as it is, so two list
\* answers in a row carry the same body.
C7_ListReadsOnly ==
    /\ []ListAnswer
    /\ [][ListAnswered' => storage' = storage]_vars
    /\ [][(ListAnswered /\ ListAnswered') => out'.body = out.body]_vars

\* C7 witness: a list request, here by POST, answered with the blob that an
\* earlier submission left.
C7_Witness ==
    /\ ListAnswered
    /\ out.req.method = "POST"
    /\ out.body = storage
    /\ Len(storage) = 3

\* C8: when two submits have read the same list and both returned 200, the
\* blob is the later writer's list alone and the other's entry is not in it.
C8_LaterWriteWins ==
    \A p, q \in Instances :
        (/\ p # q
         /\ pc[p] = "done"
         /\ Submitted(p)
         /\ LastWriter(q)
         /\ loaded[p] = loaded[q])
            => /\ storage = JsonDumps(data[q])
               /\ entry[p] \notin Range(Board)

\* C8 witness: the lost update.  Two submits read the same list, both
\* returned 200, the first one's write held its entry, and the blob now lacks
\* that entry although it would rank within the top 10 of the blob.
C8_Witness ==
    \E p, q \in Instances :
        /\ p # q
        /\ pc[p] = "done"
        /\ Submitted(p)
        /\ LastWriter(q)
        /\ loaded[p] = loaded[q]
        /\ entry[p] \in Range(data[p])
        /\ entry[p] \notin Range(Board)
        /\ NonIncreasing(Board)
        /\ \/ Len(Board) < 10
           \/ Gt(entry[p].score, Board[Len(Board)].score)

C10_NeverWorse ==
    [][/\ Len(storage') >= Len(storage)
       /\ \A k \in 1..Len(storage) :
             Ge(JsonLoads(storage')[k].score, JsonLoads(storage)[k].score)]_vars

====
